---- MODULE Spec2Model ----
(***************************************************************************)
(* Model of gretel_synthetics.actgan.data_sampler.DataSampler: the         *)
(* constructor (row-by-category index, per-column offsets and category     *)
(* probabilities) and the five public sampling operations.                 *)
(*                                                                         *)
(* Arrays keep the 0-based indexing of the source: a numpy vector of       *)
(* length n is a function with domain 0..n-1, a matrix a function of rows. *)
(* output_info is a sequence of span lists, walked in order.               *)
(* Floating point values are exact non-negative fractions [num, den];      *)
(* den = 0 stands for nan.                                                 *)
(***************************************************************************)
EXTENDS Integers, Sequences, FiniteSets, TLC

\* ---------------------------------------------------------------- bounds
MaxRows == 2      \* training matrices have 1..MaxRows rows
MaxBatch == 2     \* batch / n arguments range over 0..MaxBatch
RGrid == 2        \* np.random.rand draws range over {k / RGrid : k < RGrid}

\* ---------------------------------------------------------------- inputs
Span(dim, fn) == [dim |-> dim, activation_fn |-> fn]

\* a one-hot column with n categories, a continuous column, and a column
\* of two spans (a continuous value followed by a softmax indicator)
Discrete(n) == << Span(n, "softmax") >>
Continuous == << Span(1, "tanh") >>
Mixed == << Span(1, "tanh"), Span(1, "softmax") >>

Layouts ==
    { << >>,
      << Continuous >>,
      << Mixed >>,
      << Discrete(2) >>,
      << Discrete(2), Discrete(3) >>,
      << Continuous, Discrete(2) >>,
      << Discrete(1), Continuous, Discrete(2) >> }

\* the matrix is one column narrower, as wide as, or one column wider than
\* the layout
WidthDeltas == {-1, 0, 1}

VARIABLES
    data,                          \* self._data
    output_info,                   \* constructor argument
    log_frequency,                 \* constructor argument
    pc,                            \* "new", "ready", "returned" or "failed"
    err,                           \* exception raised by the constructor
    discrete_column_matrix_st,     \* self._discrete_column_matrix_st
    rid_by_cat_cols,               \* self._rid_by_cat_cols
    discrete_column_cond_st,       \* self._discrete_column_cond_st
    discrete_column_n_category,    \* self._discrete_column_n_category
    discrete_column_category_prob, \* self._discrete_column_category_prob
    n_discrete_columns,            \* self._n_discrete_columns
    n_categories,                  \* self._n_categories
    call,                          \* the last call: operation, arguments, random draws
    ret                            \* what the last call returned or raised

fields == << discrete_column_matrix_st, rid_by_cat_cols, discrete_column_cond_st,
             discrete_column_n_category, discrete_column_category_prob,
             n_discrete_columns, n_categories >>

vars == << data, output_info, log_frequency, pc, err, discrete_column_matrix_st,
           rid_by_cat_cols, discrete_column_cond_st, discrete_column_n_category,
           discrete_column_category_prob, n_discrete_columns, n_categories,
           call, ret >>

\* ------------------------------------------------------------ arithmetic
RECURSIVE GCD(_, _)
GCD(a, b) == IF b = 0 THEN a ELSE GCD(b, a % b)

NaN == [num |-> 0, den |-> 0]

Frac(n, d) ==
    IF d = 0 THEN NaN
    ELSE LET g == GCD(n, d) IN [num |-> n \div g, den |-> d \div g]

Zero == Frac(0, 1)
One == Frac(1, 1)

IsNaN(x) == x.den = 0

FAdd(x, y) ==
    IF IsNaN(x) \/ IsNaN(y) THEN NaN
    ELSE Frac(x.num * y.den + y.num * x.den, x.den * y.den)

\* the operands are non-negative, so a zero divisor is a sum of zeros: 0/0
FDiv(x, y) ==
    IF IsNaN(x) \/ IsNaN(y) \/ y.num = 0 THEN NaN
    ELSE Frac(x.num * y.den, x.den * y.num)

\* comparisons with nan are False
FGt(x, y) == ~IsNaN(x) /\ ~IsNaN(y) /\ x.num * y.den > y.num * x.den
FGe(x, y) == ~IsNaN(x) /\ ~IsNaN(y) /\ x.num * y.den >= y.num * x.den

\* np.log on the integers 1..8, in thousandths
LnMilli == << 0, 693, 1099, 1386, 1609, 1792, 1946, 2079 >>
Log(n) == Frac(LnMilli[n], 1000)

\* ------------------------------------------------------------- matrices
NRows(d) == Cardinality(DOMAIN d)
NCols(d) == Cardinality(DOMAIN d[0])

RECURSIVE SumDims(_, _)
SumDims(span_info_list, k) ==
    IF k = 0 THEN 0 ELSE SumDims(span_info_list, k - 1) + span_info_list[k].dim

SpanSum(span_info_list) == SumDims(span_info_list, Len(span_info_list))

IsDiscreteColumn_AnySoftmax(span_info) ==
    \E k \in 1..Len(span_info) : span_info[k].activation_fn = "softmax"

IsDiscreteColumn(span_info) ==
    Len(span_info) = 1 /\ span_info[1].activation_fn = "softmax"

RECURSIVE LayoutWidth(_, _)
LayoutWidth(oi, k) == IF k = 0 THEN 0 ELSE LayoutWidth(oi, k - 1) + SpanSum(oi[k])

TotalWidth(oi) == LayoutWidth(oi, Len(oi))

\* a layout column that the encoder fills with a one-hot block
DiscreteLayoutColumn(span_info_list) ==
    Len(span_info_list) = 1 /\ span_info_list[1].activation_fn = "softmax"

\* the rows an encoder produces for a layout: exactly one 1 in every one-hot
\* block, 0 or 1 in every other cell
EncodedRows(oi) ==
    { row \in [0..TotalWidth(oi) - 1 -> {0, 1}] :
        \A i \in 1..Len(oi) :
            DiscreteLayoutColumn(oi[i]) =>
                Cardinality({ j \in 0..oi[i][1].dim - 1 :
                                row[LayoutWidth(oi, i - 1) + j] = 1 }) = 1 }

\* rows of a matrix whose width disagrees with the layout
ConstantRows(w) == { [c \in 0..w - 1 |-> v] : v \in {0, 1} }

Matrices(oi) ==
    UNION { UNION { [0..n - 1 -> IF dw = 0 THEN EncodedRows(oi)
                                 ELSE ConstantRows(TotalWidth(oi) + dw)] :
                    n \in 1..MaxRows } :
            dw \in { x \in WidthDeltas : TotalWidth(oi) + x >= 0 } }

NoCall == [op |-> "none"]
NoRet == [kind |-> "none"]

Init ==
    /\ output_info \in Layouts
    /\ data \in Matrices(output_info)
    /\ log_frequency \in BOOLEAN
    /\ pc = "new"
    /\ err = "none"
    /\ discrete_column_matrix_st = << >>
    /\ rid_by_cat_cols = << >>
    /\ discrete_column_cond_st = << >>
    /\ discrete_column_n_category = << >>
    /\ discrete_column_category_prob = << >>
    /\ n_discrete_columns = 0
    /\ n_categories = 0
    /\ call = NoCall
    /\ ret = NoRet

\* ---------------------------------------------------------- construction
ZeroBased(s) == [k \in 0..Len(s) - 1 |-> s[k + 1]]

RECURSIVE CountDiscrete(_, _)
CountDiscrete(oi, k) ==
    IF k = 0 THEN 0
    ELSE CountDiscrete(oi, k - 1) + (IF IsDiscreteColumn(oi[k]) THEN 1 ELSE 0)

\* np.nonzero(data[:, c])[0]
NonZeroRows(d, c) == { r \in DOMAIN d : d[r][c] # 0 }

RidByCat_NoOffset(d, st, dim) == [j \in 0..dim - 1 |-> NonZeroRows(d, j)]

RidByCat(d, st, dim) == [j \in 0..dim - 1 |-> NonZeroRows(d, st + j)]

\* the first walk over output_info: the row-by-category index and the cursor;
\* data[:, st + j] raises IndexError when st + j is no column of the matrix
RECURSIVE FirstPass(_, _, _, _, _)
FirstPass(d, oi, i, st, rid) ==
    IF i > Len(oi) THEN [error |-> "none", st |-> st, rid |-> rid]
    ELSE IF IsDiscreteColumn(oi[i])
    THEN LET dim == oi[i][1].dim
             ed == st + dim
         IN IF \E j \in 0..dim - 1 : st + j >= NCols(d)
            THEN [error |-> "IndexError", st |-> st, rid |-> rid]
            ELSE FirstPass(d, oi, i + 1, ed, Append(rid, RidByCat(d, st, dim)))
    ELSE FirstPass(d, oi, i + 1, st + SpanSum(oi[i]), rid)

RECURSIVE MaxCategory(_, _)
MaxCategory(oi, k) ==
    IF k = 0 THEN 0
    ELSE LET m == MaxCategory(oi, k - 1)
         IN IF IsDiscreteColumn(oi[k]) /\ oi[k][1].dim > m THEN oi[k][1].dim ELSE m

RECURSIVE SumCategories(_, _)
SumCategories(oi, k) ==
    IF k = 0 THEN 0
    ELSE SumCategories(oi, k - 1) + (IF IsDiscreteColumn(oi[k]) THEN oi[k][1].dim ELSE 0)

RECURSIVE ColumnSum(_, _, _)
ColumnSum(d, c, n) == IF n = 0 THEN 0 ELSE ColumnSum(d, c, n - 1) + d[n - 1][c]

\* np.sum(data[:, st:ed], axis=0), then np.log(category_freq + 1) if asked
CategoryFreq(d, st, ed, log_freq) ==
    [j \in 0..ed - st - 1 |->
        LET f == ColumnSum(d, st + j, NRows(d))
        IN IF log_freq THEN Log(f + 1) ELSE Frac(f, 1)]

RECURSIVE FSum(_, _)
FSum(v, n) == IF n = 0 THEN Zero ELSE FAdd(FSum(v, n - 1), v[n - 1])

Len0(v) == Cardinality(DOMAIN v)

CategoryProb_DivByRows(category_freq) ==
    [j \in DOMAIN category_freq |-> FDiv(category_freq[j], Frac(NRows(data), 1))]

\* category_freq / np.sum(category_freq)
CategoryProb(category_freq) ==
    [j \in DOMAIN category_freq |->
        FDiv(category_freq[j], FSum(category_freq, Len0(category_freq)))]

\* a row of np.zeros(max_category) with category_prob stored in [0, dim)
PaddedRow(category_prob, max_category) ==
    [j \in 0..max_category - 1 |->
        IF j \in DOMAIN category_prob THEN category_prob[j] ELSE Zero]

\* the second walk: per discrete column, its probability row, its offset in
\* the conditioning vector and its category count
RECURSIVE SecondPass(_, _, _, _, _, _, _)
SecondPass(d, oi, log_freq, i, st, current_cond_st, acc) ==
    IF i > Len(oi) THEN acc
    ELSE IF IsDiscreteColumn(oi[i])
    THEN LET dim == oi[i][1].dim
             ed == st + dim
             category_prob == CategoryProb(CategoryFreq(d, st, ed, log_freq))
         IN SecondPass(d, oi, log_freq, i + 1, ed, current_cond_st + dim,
                [prob |-> Append(acc.prob,
                                 PaddedRow(category_prob, MaxCategory(oi, Len(oi)))),
                 cond_st |-> Append(acc.cond_st, current_cond_st),
                 n_category |-> Append(acc.n_category, dim)])
    ELSE SecondPass(d, oi, log_freq, i + 1, st + SpanSum(oi[i]), current_cond_st, acc)

\* DataSampler.__init__
Construct ==
    /\ pc = "new"
    /\ LET nd == CountDiscrete(output_info, Len(output_info))
           fp == FirstPass(data, output_info, 1, 0, << >>)
           sp == SecondPass(data, output_info, log_frequency, 1, 0, 0,
                            [prob |-> << >>, cond_st |-> << >>, n_category |-> << >>])
       IN IF fp.error # "none"
          THEN /\ pc' = "failed"
               /\ err' = fp.error
               /\ UNCHANGED fields
          ELSE IF fp.st # NCols(data)
          THEN /\ pc' = "failed"
               /\ err' = "AssertionError"
               /\ UNCHANGED fields
          ELSE /\ pc' = "ready"
               /\ err' = "none"
               /\ discrete_column_matrix_st' = [c \in 0..nd - 1 |-> 0]
               /\ rid_by_cat_cols' = ZeroBased(fp.rid)
               /\ discrete_column_cond_st' = ZeroBased(sp.cond_st)
               /\ discrete_column_n_category' = ZeroBased(sp.n_category)
               /\ discrete_column_category_prob' = ZeroBased(sp.prob)
               /\ n_discrete_columns' = nd
               /\ n_categories' = SumCategories(output_info, Len(output_info))
    /\ UNCHANGED << data, output_info, log_frequency, call, ret >>

\* ------------------------------------------------------------- sampling
\* the values np.random.rand can draw: uniform in [0, 1)
RDraws == { Frac(k, RGrid) : k \in 0..RGrid - 1 }

Exceeds_OrEqual(cum, r) == FGe(cum, r)

\* probs.cumsum(axis=1) > r, one entry
Exceeds(cum, r) == FGt(cum, r)

\* argmax of a vector of booleans: the first True, 0 when there is none
ArgMaxBool(b) ==
    IF \E j \in DOMAIN b : b[j]
    THEN CHOOSE j \in DOMAIN b : b[j] /\ \A k \in 0..j - 1 : ~b[k]
    ELSE 0

\* DataSampler._random_choice_prob_index, with the uniform draws r
RandomChoiceProbIndex(discrete_column_id, r) ==
    [i \in DOMAIN discrete_column_id |->
        LET probs == discrete_column_category_prob[discrete_column_id[i]]
        IN ArgMaxBool([j \in DOMAIN probs |-> Exceeds(FSum(probs, j + 1), r[i])])]

CategoryId_NoOffset(discrete_column_id, category_id_in_col) ==
    [i \in DOMAIN discrete_column_id |-> category_id_in_col[i]]

\* self._discrete_column_cond_st[discrete_column_id] + category_id_in_col
CategoryId(discrete_column_id, category_id_in_col) ==
    [i \in DOMAIN discrete_column_id |->
        discrete_column_cond_st[discrete_column_id[i]] + category_id_in_col[i]]

\* np.zeros((batch, width)) with m[np.arange(batch), pos] = 1
OneHotRows(batch, width, pos) ==
    [i \in 0..batch - 1 |-> [k \in 0..width - 1 |-> IF k = pos[i] THEN 1 ELSE 0]]

Raise(e) == [kind |-> "raise", error |-> e]

\* DataSampler.sample_condvec
SampleCondvec ==
    /\ pc = "ready"
    /\ \E batch \in 0..MaxBatch :
        IF n_discrete_columns = 0
        THEN /\ call' = [op |-> "sample_condvec", batch |-> batch]
             /\ ret' = [kind |-> "None"]
        ELSE \E discrete_column_id \in [0..batch - 1 -> 0..n_discrete_columns - 1],
                r \in [0..batch - 1 -> RDraws] :
                LET category_id_in_col == RandomChoiceProbIndex(discrete_column_id, r)
                    category_id == CategoryId(discrete_column_id, category_id_in_col)
                IN /\ call' = [op |-> "sample_condvec", batch |-> batch, r |-> r]
                   /\ ret' = IF \E i \in 0..batch - 1 : category_id[i] >= n_categories
                             THEN Raise("IndexError")
                             ELSE [kind |-> "ok",
                                   cond |-> OneHotRows(batch, n_categories, category_id),
                                   mask |-> OneHotRows(batch, n_discrete_columns,
                                                       discrete_column_id),
                                   discrete_column_id |-> discrete_column_id,
                                   category_id_in_col |-> category_id_in_col]
    /\ pc' = "returned"
    /\ UNCHANGED << data, output_info, log_frequency, err, fields >>

\* np.argmax of a non-empty vector: the first index of its maximum
ArgMax(v) ==
    CHOOSE j \in DOMAIN v :
        /\ \A k \in DOMAIN v : v[k] <= v[j]
        /\ \A k \in 0..j - 1 : v[k] < v[j]

Min(a, b) == IF a < b THEN a ELSE b

\* self._data[row_idx, matrix_st:matrix_ed]; a slice stops at the last column
DataSlice(row_idx, matrix_st, matrix_ed) ==
    [k \in 0..Min(matrix_ed, NCols(data)) - matrix_st - 1 |->
        data[row_idx][matrix_st + k]]

\* the global position sample_original_condvec sets for one drawn row and column
OriginalPosition(row_idx, col_idx) ==
    LET matrix_st == discrete_column_matrix_st[col_idx]
        matrix_ed == matrix_st + discrete_column_n_category[col_idx]
        pick == ArgMax(DataSlice(row_idx, matrix_st, matrix_ed))
    IN pick + discrete_column_cond_st[col_idx]

\* DataSampler.sample_original_condvec
SampleOriginalCondvec ==
    /\ pc = "ready"
    /\ \E batch \in 0..MaxBatch :
        IF n_discrete_columns = 0
        THEN /\ call' = [op |-> "sample_original_condvec", batch |-> batch]
             /\ ret' = [kind |-> "None"]
        ELSE \E row_idx \in [0..batch - 1 -> 0..NRows(data) - 1],
                col_idx \in [0..batch - 1 -> 0..n_discrete_columns - 1] :
                LET pos == [i \in 0..batch - 1 |-> OriginalPosition(row_idx[i], col_idx[i])]
                IN /\ call' = [op |-> "sample_original_condvec", batch |-> batch,
                               row_idx |-> row_idx, col_idx |-> col_idx]
                   /\ ret' = IF \E i \in 0..batch - 1 : pos[i] >= n_categories
                             THEN Raise("IndexError")
                             ELSE [kind |-> "ok",
                                   cond |-> OneHotRows(batch, n_categories, pos)]
    /\ pc' = "returned"
    /\ UNCHANGED << data, output_info, log_frequency, err, fields >>

RandomChoice_Fallback(a) == IF a = {} THEN DOMAIN data ELSE a

\* np.random.choice(a): an element of a; -1 stands for the ValueError it
\* raises on an empty array
RandomChoice(a) == IF a = {} THEN {-1} ELSE a

\* the (col, opt) arguments: equal-length vectors of a discrete-column id and
\* a category of that column
CondArgs(n) ==
    { co \in [col : [0..n - 1 -> 0..n_discrete_columns - 1],
              opt : [0..n - 1 -> 0..n_categories - 1]] :
        \A i \in 0..n - 1 : co.opt[i] < discrete_column_n_category[co.col[i]] }

\* DataSampler.sample_data; with col given, one row per (col, opt) pair is
\* drawn whatever n is, and n is recorded as the number of pairs
SampleData ==
    /\ pc = "ready"
    /\ \E n \in 0..MaxBatch :
        \/ \E idx \in [0..n - 1 -> 0..NRows(data) - 1] :
            /\ call' = [op |-> "sample_data", n |-> n, conditioned |-> FALSE]
            /\ ret' = [kind |-> "ok", rows |-> [i \in 0..n - 1 |-> data[idx[i]]]]
        \/ \E co \in CondArgs(n) :
            \E idx \in [0..n - 1 -> (0..NRows(data) - 1) \cup {-1}] :
                /\ \A i \in 0..n - 1 :
                      idx[i] \in RandomChoice(rid_by_cat_cols[co.col[i]][co.opt[i]])
                /\ call' = [op |-> "sample_data", n |-> n, conditioned |-> TRUE,
                            col |-> co.col, opt |-> co.opt]
                /\ ret' = IF \E i \in 0..n - 1 : idx[i] = -1
                          THEN Raise("ValueError")
                          ELSE [kind |-> "ok", rows |-> [i \in 0..n - 1 |-> data[idx[i]]]]
    /\ pc' = "returned"
    /\ UNCHANGED << data, output_info, log_frequency, err, fields >>

\* DataSampler.dim_cond_vec
DimCondVec ==
    /\ pc = "ready"
    /\ call' = [op |-> "dim_cond_vec"]
    /\ ret' = [kind |-> "ok", value |-> n_categories]
    /\ pc' = "returned"
    /\ UNCHANGED << data, output_info, log_frequency, err, fields >>

MatrixStAfterGenerate_InPlace(discrete_column_id, value_id) ==
    [discrete_column_matrix_st EXCEPT ![discrete_column_id] = @ + value_id]

\* id_ = self._discrete_column_matrix_st[...] reads a numpy scalar, so
\* id_ += value_id rebinds the local and the array keeps its contents
MatrixStAfterGenerate(discrete_column_id, value_id) == discrete_column_matrix_st

\* DataSampler.generate_cond_from_condition_column_info
GenerateCondFromConditionColumnInfo ==
    /\ pc = "ready"
    /\ \E batch_size \in 0..MaxBatch + 1,
          discrete_column_id \in 0..n_discrete_columns - 1 :
        \E value_id \in 0..discrete_column_n_category[discrete_column_id] - 1 :
            LET id_ == discrete_column_matrix_st[discrete_column_id] + value_id
            IN /\ call' = [op |-> "generate_cond_from_condition_column_info",
                           discrete_column_id |-> discrete_column_id,
                           value_id |-> value_id, batch_size |-> batch_size]
               /\ ret' = IF id_ >= n_categories
                         THEN Raise("IndexError")
                         ELSE [kind |-> "ok",
                               vec |-> [i \in 0..batch_size - 1 |->
                                          [k \in 0..n_categories - 1 |->
                                              IF k = id_ THEN 1 ELSE 0]]]
               /\ discrete_column_matrix_st' =
                      MatrixStAfterGenerate(discrete_column_id, value_id)
    /\ pc' = "returned"
    /\ UNCHANGED << data, output_info, log_frequency, err, rid_by_cat_cols,
                    discrete_column_cond_st, discrete_column_n_category,
                    discrete_column_category_prob, n_discrete_columns, n_categories >>

\* the caller takes the result; the sampler is idle again
Return ==
    /\ pc = "returned"
    /\ pc' = "ready"
    /\ call' = NoCall
    /\ ret' = NoRet
    /\ UNCHANGED << data, output_info, log_frequency, err, fields >>

Next ==
    \/ Construct
    \/ SampleCondvec
    \/ SampleOriginalCondvec
    \/ SampleData
    \/ DimCondVec
    \/ GenerateCondFromConditionColumnInfo
    \/ Return

Spec == Init /\ [][Next]_vars

\* ------------------------------------------------- what the claims speak of
\* The layout as its description reads it, computed from output_info alone.
DiscretePositions == { i \in 1..Len(output_info) : DiscreteLayoutColumn(output_info[i]) }

NumDiscrete == Cardinality(DiscretePositions)

\* the place in output_info of discrete column c
PositionOf(c) ==
    CHOOSE i \in DiscretePositions : Cardinality({ k \in DiscretePositions : k < i }) = c

TrueDim(c) == output_info[PositionOf(c)][1].dim

\* where the one-hot block of discrete column c starts in the matrix
TrueMatrixStart(c) == LayoutWidth(output_info, PositionOf(c) - 1)

RECURSIVE TrueCondStart(_)
TrueCondStart(c) == IF c = 0 THEN 0 ELSE TrueCondStart(c - 1) + TrueDim(c - 1)

TotalCategories == TrueCondStart(NumDiscrete)

WidthsAgree == TotalWidth(output_info) = NCols(data)

\* the categories a row's one-hot block for discrete column c decodes to
Decode(row, c) == { k \in 0..TrueDim(c) - 1 : row[TrueMatrixStart(c) + k] # 0 }

\* the training rows whose value in discrete column c is category k
TrueRowSet(c, k) == { r \in DOMAIN data : k \in Decode(data[r], c) }

\* v has `width` entries: a single 1, at p, and 0 elsewhere
OneHotAt(v, width, p) ==
    /\ DOMAIN v = 0..width - 1
    /\ p \in DOMAIN v
    /\ \A k \in DOMAIN v : v[k] = (IF k = p THEN 1 ELSE 0)

Constructed == pc \in {"ready", "returned"}

\* ---------------------------------------------------------------- claims

\* C1: construction succeeds when the span widths add up to the matrix's
\* column count, and fails on the cursor check st == data.shape[1] (an
\* AssertionError) whenever they do not, the layout narrower or wider.
C1_LayoutConsistency ==
    pc # "new" =>
        IF WidthsAgree THEN pc # "failed"
        ELSE pc = "failed" /\ err = "AssertionError"

\* C2: with a discrete column, sample_condvec(b) returns a (b, total
\* categories) vector and a (b, discrete columns) mask, each row one-hot: the
\* mask at the returned column id, the vector at cond_start of that column
\* plus the returned category.
C2_CondvecOneHot ==
    (call.op = "sample_condvec" /\ NumDiscrete > 0) =>
        /\ ret.kind = "ok"
        /\ DOMAIN ret.cond = 0..call.batch - 1
        /\ DOMAIN ret.mask = 0..call.batch - 1
        /\ DOMAIN ret.discrete_column_id = 0..call.batch - 1
        /\ DOMAIN ret.category_id_in_col = 0..call.batch - 1
        /\ \A i \in 0..call.batch - 1 :
            /\ ret.discrete_column_id[i] \in 0..NumDiscrete - 1
            /\ OneHotAt(ret.mask[i], NumDiscrete, ret.discrete_column_id[i])
            /\ OneHotAt(ret.cond[i], TotalCategories,
                        TrueCondStart(ret.discrete_column_id[i])
                        + ret.category_id_in_col[i])

C2_Witness ==
    /\ call.op = "sample_condvec"
    /\ ret.kind = "ok"
    /\ \E i \in 0..call.batch - 1 :
        ret.discrete_column_id[i] >= 1 /\ ret.category_id_in_col[i] >= 1

\* C3: sample_data(n, col, opt) returns at every index i a training row
\* whose one-hot block for discrete column col[i] decodes to opt[i], also
\* when non-discrete columns precede or separate the discrete ones.
C3_SampleDataConformance ==
    (call.op = "sample_data" /\ call.conditioned /\ ret.kind = "ok") =>
        /\ DOMAIN ret.rows = 0..call.n - 1
        /\ \A i \in 0..call.n - 1 :
            /\ \E r \in DOMAIN data : ret.rows[i] = data[r]
            /\ Decode(ret.rows[i], call.col[i]) = {call.opt[i]}

C3_Witness ==
    /\ call.op = "sample_data"
    /\ call.conditioned
    /\ ret.kind = "ok"
    /\ \E i \in 0..call.n - 1 :
        /\ TrueMatrixStart(call.col[i]) > TrueCondStart(call.col[i])
        /\ call.opt[i] >= 1

\* C4: every row of sample_original_condvec(batch) has exactly one 1, at
\* cond_start[c] + k for the drawn discrete column c and the true category
\* k of the drawn training row in column c's own matrix span.
C4_OriginalCondvecTrueCategory ==
    (call.op = "sample_original_condvec" /\ NumDiscrete > 0) =>
        /\ ret.kind = "ok"
        /\ DOMAIN ret.cond = 0..call.batch - 1
        /\ \A i \in 0..call.batch - 1 :
            \E k \in Decode(data[call.row_idx[i]], call.col_idx[i]) :
                OneHotAt(ret.cond[i], TotalCategories,
                         TrueCondStart(call.col_idx[i]) + k)

\* C5: generate_cond_from_condition_column_info returns batch_size identical
\* one-hot rows of total-categories width, the 1 at cond_start[c] + v for
\* the given discrete column c and value v.
C5_FixedConditionPosition ==
    call.op = "generate_cond_from_condition_column_info" =>
        /\ ret.kind = "ok"
        /\ DOMAIN ret.vec = 0..call.batch_size - 1
        /\ \A i \in 0..call.batch_size - 1 :
            OneHotAt(ret.vec[i], TotalCategories,
                     TrueCondStart(call.discrete_column_id) + call.value_id)

\* C6: a layout without discrete columns whose widths agree with the matrix
\* constructs without error; sample_condvec and sample_original_condvec then
\* return None and dim_cond_vec returns 0.
C6_NoDiscreteColumns ==
    (pc # "new" /\ NumDiscrete = 0 /\ WidthsAgree) =>
        /\ pc # "failed"
        /\ err = "none"
        /\ call.op \in {"sample_condvec", "sample_original_condvec"} =>
               ret = [kind |-> "None"]
        /\ call.op = "dim_cond_vec" => ret = [kind |-> "ok", value |-> 0]

C6_Witness ==
    /\ NumDiscrete = 0
    /\ Len(output_info) >= 1
    /\ call.op = "sample_condvec"
    /\ call.batch >= 1
    /\ ret.kind = "None"

\* C7: sample_data with a (col[i], opt[i]) pair whose row set is empty raises;
\* it returns no rows, neither a substitute for the empty pair nor the rows of
\* the other pairs.
C7_EmptyPairRaises ==
    ( /\ call.op = "sample_data"
      /\ call.conditioned
      /\ \E i \in 0..call.n - 1 : TrueRowSet(call.col[i], call.opt[i]) = {} ) =>
        ret = Raise("ValueError")

C7_Witness ==
    /\ call.op = "sample_data"
    /\ call.conditioned
    /\ \E i, j \in 0..call.n - 1 :
        /\ TrueRowSet(call.col[i], call.opt[i]) # {}
        /\ TrueRowSet(call.col[j], call.opt[j]) = {}
    /\ ret.kind = "raise"

\* C8: after construction every discrete column's probability row has
\* max-category entries, all >= 0, summing to 1 over the column's own
\* categories and 0 in the padding beyond them, with or without log
\* frequency.
C8_ProbabilityNormalised ==
    Constructed =>
        /\ DOMAIN discrete_column_category_prob = 0..NumDiscrete - 1
        /\ \A c \in 0..NumDiscrete - 1 :
            LET probs == discrete_column_category_prob[c]
            IN /\ \A d \in 0..NumDiscrete - 1 : TrueDim(d) <= Len0(probs)
               /\ \E d \in 0..NumDiscrete - 1 : TrueDim(d) = Len0(probs)
               /\ DOMAIN probs = 0..Len0(probs) - 1
               /\ \A j \in DOMAIN probs : FGe(probs[j], Zero)
               /\ FSum(probs, TrueDim(c)) = One
               /\ \A j \in DOMAIN probs : j >= TrueDim(c) => probs[j] = Zero

C8_Witness ==
    /\ Constructed
    /\ log_frequency
    /\ NRows(data) >= 2
    /\ \E c \in 0..NumDiscrete - 1 :
        LET probs == discrete_column_category_prob[c]
        IN /\ TrueDim(c) < Len0(probs)
           /\ \E j, k \in 0..TrueDim(c) - 1 :
                j # k /\ FGt(probs[j], Zero) /\ FGt(probs[k], Zero)

C10_CallsLeaveSamplerUnchanged ==
    [][pc # "new" => UNCHANGED << data, output_info, log_frequency, fields >>]_vars

C10_Witness ==
    /\ pc = "returned"
    /\ call.op = "generate_cond_from_condition_column_info"
    /\ call.value_id >= 1
    /\ call.batch_size >= 1
====
